---- MODULE Spec2Model ----
(***************************************************************************)
(* The bundle execution pipeline of Flash-liquSwap-Sync:                   *)
(*   main  (src/cmd/atomic_tx_bot/main.go)                                 *)
(*     CalculateDynamicGasParams  (src/internal/atomic/gas.go)             *)
(*     ExecuteAtomicOperations  (src/internal/atomic/executor.go)          *)
(*       getAmountsOut -> create{Approve,Swap,AddLiquidity}Transaction     *)
(*       SimulateBundle -> SendBundleWithRetries -> monitorBundleInclusion *)
(* The relay, the chain and the run's context are the environment: every   *)
(* answer they can give is a nondeterministic choice.                      *)
(*                                                                         *)
(* Time is counted in ticker periods (1 s, executor.go:62).  The monitor   *)
(* blocks in a select; time advances only while no case of the select is   *)
(* ready, and when several cases are ready Go picks any one of them.       *)
(***************************************************************************)
EXTENDS Integers, Sequences, FiniteSets, TLC

VARIABLES
    pc,             \* position of main and of ExecuteAtomicOperations
    cancelled,      \* ctx.Done() is closed
    simResult,      \* what SimulateBundle returned (simResult, err)
    maxRetries,     \* parameter of SendBundleWithRetries
    attempt,        \* loop variable of SendBundleWithRetries
    lastErr,        \* lastErr of SendBundleWithRetries
    sendCalls,      \* number of SendBundle calls made in this run
    sendLog,        \* what the SendBundle calls of the retry loop returned, in call order
    sleeps,         \* the time.Sleep durations (seconds) of the retry loop
    sendResult,     \* sendResult of ExecuteAtomicOperations: "nil" or "bundle"
    timeout,        \* parameter of monitorBundleInclusion, in seconds
    elapsed,        \* seconds since monitoring started (time.Since(startTime))
    sinceSelect,    \* seconds since the current select, hence time.After, began
    tickReady,      \* ticker.C holds a tick
    includedCount,  \* includedCount of monitorBundleInclusion
    included,       \* hashes for which a poll has seen a success receipt
    receipts,       \* the chain: receipt status of each bundle transaction
    polls,          \* number of polls (rounds of receipt lookups) made
    result,         \* what ExecuteAtomicOperations returned, or how main exited
    feeSnapshot,    \* the node: what the head and fee queries of gas.go answer
    gasEstimate,    \* the node: what EstimateGas answers for each operation when it succeeds
    poolQuote,      \* the pool: the output amount getAmountsOut answers when it succeeds
    head,           \* the chain: number of the head block
    gasParams,      \* gasParams of main
    nonce,          \* nonce of main: the pending nonce of the EOA
    ethAmount,      \* config.EthAmount, in wei
    slippage,       \* config.SlippageTolerance, a float64
    minAmounts,     \* the minimum amounts computed for the swap and add-liquidity calls
    expectedTokenAmount, \* expectedTokenAmount of ExecuteAtomicOperations
    signedTxs,      \* the signed transactions approveTx, swapTx, addLiquidityTx made so far
    transactions,   \* transactions of ExecuteAtomicOperations
    gasAttempt,     \* loop variable i of estimateGasWithRetry
    gasLimit,       \* gasLimit of the create...Transaction function that is running
    gasCalls,       \* EstimateGas calls made for the transaction being created
    gasSleeps,      \* the time.Sleep durations (milliseconds) of estimateGasWithRetry
    simRequest,     \* the eth_callBundle request SimulateBundle posted
    sendRequests,   \* the eth_sendBundle requests the retry loop posted, in order
    recoveryIds,    \* the recovery ids crypto.Sign yields with the auth key of the run
    simSignature,   \* the X-Flashbots-Signature header of the eth_callBundle request
    sendSignatures  \* the X-Flashbots-Signature headers of the eth_sendBundle requests

\* The node and the chain
chainVars == << feeSnapshot, gasEstimate, poolQuote, head, recoveryIds >>

\* main and the sequencing part of ExecuteAtomicOperations
seqVars == << gasParams, nonce, ethAmount, slippage, minAmounts, expectedTokenAmount,
              signedTxs, transactions, gasAttempt, gasLimit, gasCalls, gasSleeps >>

\* The requests posted to the relay
relayVars == << simRequest, sendRequests, simSignature, sendSignatures >>

vars == << pc, cancelled, simResult, maxRetries, attempt, lastErr, sendCalls,
           sendLog, sleeps, sendResult, timeout, elapsed, sinceSelect, tickReady,
           includedCount, included, receipts, polls, result,
           chainVars, seqVars, relayVars >>

----------------------------------------------------------------------------
(* Bounds of the model *)

MaxRetriesArg == 3      \* maxRetries is drawn from 0..MaxRetriesArg
MaxTimeout == 2         \* timeout is drawn from 1..MaxTimeout and MonitorTimeout
MaxElapsed == 4         \* elapsed stops counting here
MaxPolls == 4           \* polls stops counting here
WeiPerGwei == 10        \* the scale of the fee arithmetic: params.GWei, 10^9 in the program
MaxTip == 200           \* the suggested tip is drawn from 0..MaxTip wei
MaxBaseFee == 3         \* the base fee of the head is drawn from 0..MaxBaseFee wei
MaxGasPrice == 5        \* the suggested legacy price is drawn from 0..MaxGasPrice wei
MaxNonce == 1           \* the pending nonce is drawn from 0..MaxNonce
MaxEthAmount == 3       \* config.EthAmount is drawn from 0..MaxEthAmount wei
MaxHead == 2            \* the chain head is drawn from, and stops advancing at, 0..MaxHead
MaxQuote == 2           \* the quoted output amount is drawn from 0..MaxQuote
MaxGasEstimate == 10    \* the node's gas estimates are 1 or MaxGasEstimate

(* Constants of the program *)

NumTxs == 3             \* transactions := {approveTx, swapTx, addLiquidityTx}
SendRetries == 3        \* SendBundleWithRetries(ctx, transactions, flashbotsKey, 3)
MonitorTimeout == 60    \* monitorBundleInclusion(ctx, client, transactions, 60*time.Second)
PRIORITY_FEE_MULTIPLIER == 3        \* PRIORITY_FEE_MULTIPLIER = 3.0
BaseFeeMultiplierTenths == 25       \* BASE_FEE_MULTIPLIER = 2.5, in tenths
GAS_LIMIT_BUFFER_PERCENT == 30      \* GAS_LIMIT_BUFFER_PERCENT = 30
MIN_PRIORITY_FEE_GWEI == 2          \* MIN_PRIORITY_FEE_GWEI = 2.0
MAX_PRIORITY_FEE_GWEI == 50         \* MAX_PRIORITY_FEE_GWEI = 50.0
LegacyPricePercent == 150           \* fastGasPrice = gasPrice * 150 / 100
GasRetries == 3                     \* estimateGasWithRetry(ctx, client, msg, 3)
GasBackoffMillis == 500             \* time.Sleep(time.Duration(i+1) * 500 * time.Millisecond)

TxIndex == 1 .. NumTxs

Nil == "<nil>"

----------------------------------------------------------------------------
(* Values returned by ExecuteAtomicOperations.  An error is kept as the    *)
(* fields its fmt.Errorf format prints.                                    *)

Ret(kind, txIndex, attempts, count, msg, revert) ==
    [kind |-> kind, txIndex |-> txIndex, attempts |-> attempts,
     included |-> count, msg |-> msg, revert |-> revert]

Running == Ret("running", 0, 0, 0, "", "")
RetNil == Ret("nil", 0, 0, 0, "", "")
\* "bundle simulation returned an error: %s"
ErrSimulation(message) == Ret("simulationError", 0, 0, 0, message, "")
\* "transaction %d simulation error: %s - %s"
ErrTransaction(i, error, revert) == Ret("transactionError", i, 0, 0, error, revert)
\* "failed to send bundle: failed to send bundle after %d attempts: %v"
ErrSend(n, err) == Ret("sendError", 0, n, 0, err, "")
\* "bundle inclusion timeout after %v (included: %d/%d)"
ErrTimeout(count) == Ret("timeoutError", 0, 0, count, "", "")
\* ctx.Err()
ErrCancelled == Ret("cancelled", 0, 0, 0, "context canceled", "")
\* main: log.Fatalf("Failed to calculate gas parameters: %v", err)
FatalFees(err) == Ret("fatal", 0, 0, 0, err, "")
\* "failed to get expected token amount: %v", "failed to create approve transaction: %v", ...
ErrSequencing(msg) == Ret("sequencingError", 0, 0, 0, msg, "")

----------------------------------------------------------------------------
(* CalculateDynamicGasParams.  Amounts are in wei.                         *)

\* A query that failed, or a pointer that is nil
None == -1

\* What the node answers: headErr is the failure of HeaderByNumber, baseFee is
\* header.BaseFee (None when the header carries none), tip and gasPrice are the
\* answers of SuggestGasTipCap and SuggestGasPrice (None when the query fails)
FeeSnapshots ==
    [headErr : {TRUE}, baseFee : {None}, tip : {None}, gasPrice : {None}]
      \cup [headErr : {FALSE}, baseFee : {None}, tip : {None},
            gasPrice : {None} \cup (0 .. MaxGasPrice)]
      \cup [headErr : {FALSE}, baseFee : 0 .. MaxBaseFee,
            tip : {None} \cup (0 .. MaxTip), gasPrice : {None}]

\* GweiToWei: gwei * params.GWei
GweiToWei(gwei) == gwei * WeiPerGwei

\* The GasParams struct; GasLimit is never set by CalculateDynamicGasParams
GasParams(isLegacy, legacyGasPrice, maxFeePerGas, maxPriorityFee) ==
    [IsLegacy |-> isLegacy, LegacyGasPrice |-> legacyGasPrice,
     MaxFeePerGas |-> maxFeePerGas, MaxPriorityFee |-> maxPriorityFee, GasLimit |-> 0]

NoGasParams == GasParams(FALSE, None, None, None)

\* fastGasPrice := gasPrice * 150 / 100 (big.Int, truncated)
FastGasPrice(gasPrice) == (gasPrice * LegacyPricePercent) \div 100

\* A failed tip query passed on as a suggestion of zero
SuggestedTipOrZero(tip) == IF tip = None THEN 0 ELSE tip

\* priorityFee, err := client.SuggestGasTipCap(ctx)
\* if err != nil { priorityFee = GweiToWei(configs.MIN_PRIORITY_FEE_GWEI) }
SuggestedTip(tip) == IF tip = None THEN GweiToWei(MIN_PRIORITY_FEE_GWEI) ELSE tip

\* priorityFee * int64(PRIORITY_FEE_MULTIPLIER*100) / 100 (big.Int, truncated)
MultipliedTip(tip) == (tip * (PRIORITY_FEE_MULTIPLIER * 100)) \div 100

\* The bounds applied without the upper one
ClampLowOnly(fee) ==
    IF fee < GweiToWei(MIN_PRIORITY_FEE_GWEI) THEN GweiToWei(MIN_PRIORITY_FEE_GWEI) ELSE fee

\* if priorityFee.Cmp(minPriorityFee) < 0 { priorityFee = minPriorityFee }
\* if priorityFee.Cmp(maxPriorityFee) > 0 { priorityFee = maxPriorityFee }
ClampPriorityFee(fee) ==
    LET low == IF fee < GweiToWei(MIN_PRIORITY_FEE_GWEI)
               THEN GweiToWei(MIN_PRIORITY_FEE_GWEI) ELSE fee
    IN  IF low > GweiToWei(MAX_PRIORITY_FEE_GWEI) THEN GweiToWei(MAX_PRIORITY_FEE_GWEI) ELSE low

\* The base fee doubled
MaxBaseFeeDoubled(baseFee) == baseFee * 2

\* maxBaseFee := big.Float(baseFee) * BASE_FEE_MULTIPLIER; maxBaseFee.Int(maxBaseFeeInt)
MaxBaseFeeInt(baseFee) == (baseFee * BaseFeeMultiplierTenths) \div 10

\* A legacy price with the fee-market fields filled in from it as well
LegacyParamsWithFeeFields(gasPrice) ==
    GasParams(TRUE, FastGasPrice(gasPrice), FastGasPrice(gasPrice), FastGasPrice(gasPrice))

\* return &GasParams{IsLegacy: true, LegacyGasPrice: fastGasPrice}
LegacyParams(gasPrice) == GasParams(TRUE, FastGasPrice(gasPrice), None, None)

\* return &GasParams{MaxFeePerGas: ..., MaxPriorityFee: priorityFee, IsLegacy: false}
DynamicParams(baseFee, tip) ==
    LET priorityFee == ClampPriorityFee(MultipliedTip(SuggestedTip(tip)))
    IN  GasParams(FALSE, None, MaxBaseFeeInt(baseFee) + priorityFee, priorityFee)

\* (params, err) as CalculateDynamicGasParams returns them
CalculateDynamicGasParams(s) ==
    IF s.headErr
    THEN [params |-> NoGasParams, err |-> "failed to get latest block header"]
    ELSE IF s.baseFee = None
         THEN IF s.gasPrice = None
              THEN [params |-> NoGasParams, err |-> "failed to get legacy gas price"]
              ELSE [params |-> LegacyParams(s.gasPrice), err |-> Nil]
         ELSE [params |-> DynamicParams(s.baseFee, s.tip), err |-> Nil]

\* The queries of a cancelled context fail, the head query first
Answering(s) == IF cancelled THEN [s EXCEPT !.headErr = TRUE] ELSE s

\* The failure of the legacy price query let through
FeesAbortOnlyOnHeadFailure(r) == r.err = "failed to get latest block header"

\* The head-query failure taken for a missing base fee
FeesAbortOnlyOnPriceFailure(r) == r.err = "failed to get legacy gas price"

\* if err != nil { log.Fatalf("Failed to calculate gas parameters: %v", err) }
FeesAbort(r) == r.err # Nil

\* main: gasParams, err := atomic.CalculateDynamicGasParams(ctx, client)
DeriveFees ==
    /\ pc = "fees"
    /\ LET r == CalculateDynamicGasParams(Answering(feeSnapshot))
       IN  IF FeesAbort(r)
           THEN /\ result' = FatalFees(r.err)
                /\ pc' = "done"
                /\ UNCHANGED gasParams
           ELSE /\ gasParams' = r.params
                /\ pc' = "quote"
                /\ UNCHANGED result
    /\ UNCHANGED << cancelled, simResult, maxRetries, attempt, lastErr, sendCalls, sendLog,
                    sleeps, sendResult, timeout, elapsed, sinceSelect, tickReady,
                    includedCount, included, receipts, polls >>
    /\ UNCHANGED << chainVars, nonce, ethAmount, slippage, minAmounts,
                    expectedTokenAmount, signedTxs, transactions,
                    gasAttempt, gasLimit, gasCalls, gasSleeps, relayVars >>

----------------------------------------------------------------------------
(* The sequencing part of ExecuteAtomicOperations: the split of the       *)
(* budget, the quote, and the three transactions, each one packed, its gas *)
(* estimated, built and signed before the next one is begun.              *)

\* The operations in the order the code creates their transactions
Ops == << "approve", "swap", "addLiquidity" >>

\* ethForSwap := new(big.Int).Div(config.EthAmount, big.NewInt(2))
EthForSwap(total) == total \div 2

\* The other half computed as a half as well
EthForLPHalved(total) == total \div 2

\* ethForLP := new(big.Int).Sub(config.EthAmount, ethForSwap)
EthForLP(total) == total - EthForSwap(total)

----------------------------------------------------------------------------
(* applySlippage.  Its amounts are big.Int and its arithmetic is float64 and      *)
(* big.Float, wider than the integers of the checker: a natural number is held   *)
(* here as big.Int holds it, a sequence of limbs with the lowest limb first.      *)
(* The uint64 gas estimates of the node are held in the same way.                 *)

Float64Precision == 53      \* precision of a float64 and of big.NewFloat(x)
SetIntMinPrecision == 64    \* big.Float.SetInt: precision max(amount.BitLen(), 64)

\* A limb holds three hexadecimal digits
LimbBits == 3 * 4
LimbBase == 2^LimbBits

Max(a, b) == IF a >= b THEN a ELSE b

RECURSIVE LimbsOfInt(_)
LimbsOfInt(n) == IF n = 0 THEN << >> ELSE << n % LimbBase >> \o LimbsOfInt(n \div LimbBase)

RECURSIVE IntOfLimbs(_)
IntOfLimbs(a) == IF a = << >> THEN 0 ELSE a[1] + LimbBase * IntOfLimbs(Tail(a))

\* The limbs of a number written as hexadecimal digits, highest digit first
RECURSIVE LimbsOfHex(_)
LimbsOfHex(h) ==
    LET n == Len(h)
    IN  IF n = 0 THEN << >>
        ELSE IF n = 1 THEN << h[1] >>
        ELSE IF n = 2 THEN << 16 * h[1] + h[2] >>
        ELSE << 256 * h[n - 2] + 16 * h[n - 1] + h[n] >> \o LimbsOfHex(SubSeq(h, 1, n - 3))

\* Without the zero limbs at the high end
RECURSIVE Trim(_)
Trim(a) ==
    IF a = << >> THEN a
    ELSE IF a[Len(a)] = 0 THEN Trim(SubSeq(a, 1, Len(a) - 1)) ELSE a

RECURSIVE IntBitLen(_)
IntBitLen(n) == IF n = 0 THEN 0 ELSE 1 + IntBitLen(n \div 2)

\* big.Int.BitLen
BitLen(a) ==
    LET t == Trim(a)
    IN  IF t = << >> THEN 0 ELSE LimbBits * (Len(t) - 1) + IntBitLen(t[Len(t)])

\* Bit k of a, bit 0 being the lowest
Bit(a, k) ==
    LET i == (k \div LimbBits) + 1
    IN  IF i > Len(a) THEN 0 ELSE (a[i] \div 2^(k % LimbBits)) % 2

RestOf(a) == IF a = << >> THEN a ELSE Tail(a)
LowLimb(a) == IF a = << >> THEN 0 ELSE a[1]

\* a + b + carry
RECURSIVE AddLimbs(_, _, _)
AddLimbs(a, b, carry) ==
    IF a = << >> /\ b = << >>
    THEN IF carry = 0 THEN << >> ELSE << carry >>
    ELSE LET sum == LowLimb(a) + LowLimb(b) + carry
         IN  << sum % LimbBase >> \o AddLimbs(RestOf(a), RestOf(b), sum \div LimbBase)

\* a - b - borrow, for a >= b + borrow
RECURSIVE SubLimbs(_, _, _)
SubLimbs(a, b, borrow) ==
    IF a = << >> THEN << >>
    ELSE LET diff == a[1] - LowLimb(b) - borrow
         IN  << diff % LimbBase >> \o SubLimbs(Tail(a), RestOf(b), IF diff < 0 THEN 1 ELSE 0)

\* a * d + carry for one limb d
RECURSIVE MulLimb(_, _, _)
MulLimb(a, d, carry) ==
    IF a = << >>
    THEN IF carry = 0 THEN << >> ELSE << carry >>
    ELSE LET product == a[1] * d + carry
         IN  << product % LimbBase >> \o MulLimb(Tail(a), d, product \div LimbBase)

\* a * b
RECURSIVE MulLimbs(_, _)
MulLimbs(a, b) ==
    IF a = << >> THEN << >>
    ELSE AddLimbs(MulLimb(b, a[1], 0), << 0 >> \o MulLimbs(Tail(a), b), 0)

\* -1, 0 or 1 as a is below, equal to or above b
RECURSIVE CmpLimbs(_, _)
CmpLimbs(a, b) ==
    IF a = << >> /\ b = << >> THEN 0
    ELSE LET high == CmpLimbs(RestOf(a), RestOf(b))
         IN  IF high # 0 THEN high
             ELSE IF LowLimb(a) < LowLimb(b) THEN -1
             ELSE IF LowLimb(a) > LowLimb(b) THEN 1 ELSE 0

\* 2^e
PowerOfTwo(e) ==
    [k \in 1 .. (e \div LimbBits) + 1 |->
        IF k = (e \div LimbBits) + 1 THEN 2^(e % LimbBits) ELSE 0]

\* floor(a / 2^n)
ShiftRight(a, n) ==
    LET q == n \div LimbBits
        r == n % LimbBits
        limb(i) == IF i > Len(a) THEN 0 ELSE a[i]
    IN  IF q >= Len(a) THEN << >>
        ELSE [i \in 1 .. Len(a) - q |->
                 (limb(i + q) \div 2^r) + (limb(i + q + 1) % 2^r) * 2^(LimbBits - r)]

\* a mod 2^bits: the value an unsigned integer of that width keeps
WrapLimbs(a, bits) ==
    LET q == bits \div LimbBits
        r == bits % LimbBits
        n == IF Len(a) <= q THEN Len(a) ELSE IF r = 0 THEN q ELSE q + 1
    IN  [i \in 1 .. n |-> IF i = q + 1 THEN a[i] % 2^r ELSE a[i]]

\* Quotient q and remainder r of a by the small divisor d
RECURSIVE DivLimbsBy(_, _)
DivLimbsBy(a, d) ==
    IF a = << >> THEN [q |-> << >>, r |-> 0]
    ELSE LET high == DivLimbsBy(Tail(a), d)
             cur == high.r * LimbBase + a[1]
         IN  [q |-> << cur \div d >> \o high.q, r |-> cur % d]

\* a rounded to prec significant bits, to the nearest and on a tie to the even one:
\* the rounding of float64 arithmetic and of a big.Float in its default mode
RoundToPrec(a, prec) ==
    LET drop == BitLen(a) - prec
    IN  IF drop <= 0 THEN Trim(a)
        ELSE LET kept == ShiftRight(a, drop)
                 half == Bit(a, drop - 1) = 1
                 sticky == \E k \in 0 .. drop - 2 : Bit(a, k) = 1
                 up == half /\ (sticky \/ Bit(a, drop) = 1)
             IN  MulLimbs(IF up THEN AddLimbs(kept, << 1 >>, 0) ELSE kept, PowerOfTwo(drop))

\* The float64 the decimal num/den is parsed to: hex * 2^-exp, hex in hexadecimal
\* digits
Float64(num, den, hex, exp) == [num |-> num, den |-> den, hex |-> hex, exp |-> exp]

\* f.hex * 2^-f.exp is the float64 nearest to f.num / f.den: it has at most 53 bits
\* and is the decimal itself, or it has 53 bits and lies within half a unit of its
\* last bit of the decimal
IsFloat64(f) ==
    LET m == LimbsOfHex(f.hex)
        scaled == MulLimbs(LimbsOfInt(f.den), m)
        exact == MulLimbs(LimbsOfInt(f.num), PowerOfTwo(f.exp))
        gap == IF CmpLimbs(scaled, exact) >= 0 THEN SubLimbs(scaled, exact, 0)
               ELSE SubLimbs(exact, scaled, 0)
    IN  /\ BitLen(m) <= Float64Precision
        /\ \/ Trim(gap) = << >>
           \/ /\ BitLen(m) = Float64Precision
              /\ CmpLimbs(AddLimbs(gap, gap, 0), LimbsOfInt(f.den)) <= 0

\* DEFAULT_SLIPPAGE = 0.01
DEFAULT_SLIPPAGE == Float64(1, 100, << 1, 4, 7, 10, 14, 1, 4, 7, 10, 14, 1, 4, 7, 11 >>, 59)

\* The tolerances a configuration may carry: 0, 0.005, 0.01, 0.05, 0.1, 0.5 and 1
Slippages ==
    { Float64(0, 1, << 0 >>, 0),
      Float64(5, 1000, << 1, 4, 7, 10, 14, 1, 4, 7, 10, 14, 1, 4, 7, 11 >>, 60),
      DEFAULT_SLIPPAGE,
      Float64(5, 100, << 1, 9, 9, 9, 9, 9, 9, 9, 9, 9, 9, 9, 9, 10 >>, 57),
      Float64(1, 10, << 1, 9, 9, 9, 9, 9, 9, 9, 9, 9, 9, 9, 9, 10 >>, 56),
      Float64(1, 2, << 1 >>, 1),
      Float64(1, 1, << 1 >>, 0) }

\* The tolerance itself taken as the multiplier
SlippageMultiplierIsTolerance(f) == LimbsOfHex(f.hex)

\* 1.0 - slippagePercent in float64, in units of 2^-exp
SlippageMultiplier(f) ==
    RoundToPrec(SubLimbs(PowerOfTwo(f.exp), LimbsOfHex(f.hex), 0), Float64Precision)

\* applySlippage: the product of the amount and the multiplier in a big.Float of the
\* larger precision of the two, then Int(), which drops the fraction
applySlippage(amount, f) ==
    LET amountFloat == LimbsOfInt(amount)
        prec == Max(Max(BitLen(amountFloat), SetIntMinPrecision), Float64Precision)
        minAmountFloat == RoundToPrec(MulLimbs(amountFloat, SlippageMultiplier(f)), prec)
    IN  IntOfLimbs(ShiftRight(minAmountFloat, f.exp))

\* The minimum amounts before any is computed
NoMinimums == [amountOutMin |-> None, amountTokenMin |-> None, amountETHMin |-> None]

\* amountOutMin := applySlippage(expectedTokenAmount, config.SlippageTolerance) before
\* the swap is created; amountTokenMin and amountETHMin of createAddLiquidityTransaction
MinimumsFor(op, mins, tokens, total, f) ==
    CASE op = "swap" -> [mins EXCEPT !.amountOutMin = applySlippage(tokens, f)]
      [] op = "addLiquidity" ->
            [mins EXCEPT !.amountTokenMin = applySlippage(tokens, f),
                         !.amountETHMin = applySlippage(EthForLP(total), f)]
      [] OTHER -> mins

----------------------------------------------------------------------------
(* The quote and the three transactions *)

\* (amounts, err) of the getAmountsOut call: the call or the unpacking fails, or the
\* router answers a list of amounts
QuoteAnswers ==
    [err : { "call failed" }, amounts : { << >> }]
      \cup [err : {Nil}, amounts : { << >>, << poolQuote >>, << poolQuote, poolQuote >>,
                                     << poolQuote, poolQuote, poolQuote >> }]

\* A call on a cancelled context fails
QuoteCanReturn(q) == cancelled => q.err # Nil

\* if len(amounts) < 2 { return nil, fmt.Errorf("invalid amounts returned") }
QuoteFails(q) == q.err # Nil \/ Len(q.amounts) < 2

\* The run going on to the first transaction whatever getAmountsOut returned
AfterQuoteIgnoringError(failed) == "pack"

\* if err != nil { return fmt.Errorf("failed to get expected token amount: %v", err) }
AfterQuote(failed) == IF failed THEN "done" ELSE "pack"

\* expectedTokenAmount, err := getAmountsOut(ctx, client, routerABI, ethForSwap, path)
\* getAmountsOut returns amounts[1]
Quote ==
    /\ pc = "quote"
    /\ \E q \in QuoteAnswers :
         /\ QuoteCanReturn(q)
         /\ IF QuoteFails(q)
            THEN /\ result' = ErrSequencing("failed to get expected token amount")
                 /\ pc' = AfterQuote(TRUE)
                 /\ UNCHANGED expectedTokenAmount
            ELSE /\ expectedTokenAmount' = q.amounts[2]
                 /\ pc' = AfterQuote(FALSE)
                 /\ UNCHANGED result
    /\ UNCHANGED << cancelled, simResult, maxRetries, attempt, lastErr, sendCalls, sendLog,
                    sleeps, sendResult, timeout, elapsed, sinceSelect, tickReady,
                    includedCount, included, receipts, polls >>
    /\ UNCHANGED << chainVars, gasParams, nonce, ethAmount, slippage, minAmounts,
                    signedTxs, transactions,
                    gasAttempt, gasLimit, gasCalls, gasSleeps, relayVars >>

\* The operation whose transaction is being created
CurrentOp == Ops[Len(signedTxs) + 1]

\* "failed to create approve transaction: %v" and its two siblings
ErrCreate(op) ==
    ErrSequencing(CASE op = "approve" -> "failed to create approve transaction"
                    [] op = "swap" -> "failed to create swap transaction"
                    [] op = "addLiquidity" -> "failed to create add liquidity transaction")

\* data, err := abi.Pack(...); if err != nil { return nil, err }
PackData ==
    /\ pc = "pack"
    /\ \E ok \in BOOLEAN :
         IF ok
         THEN /\ pc' = "estimate"
              /\ gasAttempt' = 0
              /\ UNCHANGED result
         ELSE /\ result' = ErrCreate(CurrentOp)
              /\ pc' = "done"
              /\ UNCHANGED gasAttempt
    /\ minAmounts' = MinimumsFor(CurrentOp, minAmounts, expectedTokenAmount, ethAmount, slippage)
    /\ UNCHANGED << cancelled, simResult, maxRetries, attempt, lastErr, sendCalls, sendLog,
                    sleeps, sendResult, timeout, elapsed, sinceSelect, tickReady,
                    includedCount, included, receipts, polls >>
    /\ UNCHANGED << chainVars, gasParams, nonce, ethAmount, slippage, expectedTokenAmount,
                    signedTxs, transactions, gasLimit, gasCalls, gasSleeps, relayVars >>

----------------------------------------------------------------------------
(* estimateGasWithRetry and the default gas limits *)

\* One default for every operation
DefaultGasLimitFlat(op) == 200000

\* getDefaultGasLimits
DefaultGasLimit(op) ==
    CASE op = "approve" -> 60000
      [] op = "swap" -> 300000
      [] op = "addLiquidity" -> 400000
      [] OTHER -> 200000

Uint64Bits == 64     \* gasLimit is a uint64

\* bufferedGas := gasLimit * (100 + configs.GAS_LIMIT_BUFFER_PERCENT) / 100, in uint64:
\* the product wraps at 2^64 before the division
BufferedGas64(g) ==
    DivLimbsBy(WrapLimbs(MulLimbs(g, LimbsOfInt(100 + GAS_LIMIT_BUFFER_PERCENT)), Uint64Bits),
               100).q

\* gasLimit = gasLimit * (100 + configs.GAS_LIMIT_BUFFER_PERCENT) / 100 for a default
\* gas limit
BufferedGas(gas) == IntOfLimbs(BufferedGas64(LimbsOfInt(gas)))

\* i < retries, the condition of the estimation loop
EstimateLoopContinues(i) == i < GasRetries

\* The same wait after every failed call
EstimateSleepFlat(i) == GasBackoffMillis

\* if i < retries-1 { time.Sleep(time.Duration(i+1) * 500 * time.Millisecond) }
EstimateSleepsAfter(i) == i < GasRetries - 1
EstimateSleep(i) == (i + 1) * GasBackoffMillis

\* A call on a cancelled context fails
EstimateCanReturn(ok) == cancelled => ~ok

\* One iteration of the loop of estimateGasWithRetry: one EstimateGas call, then the
\* return of the buffered estimate, or the sleep
EstimateGasAttempt ==
    /\ pc = "estimate"
    /\ EstimateLoopContinues(gasAttempt)
    /\ gasCalls' = gasCalls + 1
    /\ \E ok \in BOOLEAN :
         /\ EstimateCanReturn(ok)
         /\ IF ok
            THEN /\ gasLimit' = IntOfLimbs(BufferedGas64(gasEstimate[CurrentOp]))
                 /\ pc' = "sign"
                 /\ UNCHANGED << gasAttempt, gasSleeps >>
            ELSE /\ gasSleeps' = IF EstimateSleepsAfter(gasAttempt)
                                 THEN Append(gasSleeps, EstimateSleep(gasAttempt))
                                 ELSE gasSleeps
                 /\ gasAttempt' = gasAttempt + 1
                 /\ UNCHANGED << gasLimit, pc >>
    /\ UNCHANGED << cancelled, simResult, maxRetries, attempt, lastErr, sendCalls, sendLog,
                    sleeps, sendResult, timeout, elapsed, sinceSelect, tickReady,
                    includedCount, included, receipts, polls, result >>
    /\ UNCHANGED << chainVars, gasParams, nonce, ethAmount, slippage, minAmounts,
                    expectedTokenAmount, signedTxs,
                    transactions, relayVars >>

\* The loop has ended: return 0, "gas estimation failed after %d retries"; the caller
\* takes the default: gasLimit = getDefaultGasLimits(op), then the buffer
EstimateGasGiveUp ==
    /\ pc = "estimate"
    /\ ~EstimateLoopContinues(gasAttempt)
    /\ gasLimit' = BufferedGas(DefaultGasLimit(CurrentOp))
    /\ pc' = "sign"
    /\ UNCHANGED << cancelled, simResult, maxRetries, attempt, lastErr, sendCalls, sendLog,
                    sleeps, sendResult, timeout, elapsed, sinceSelect, tickReady,
                    includedCount, included, receipts, polls, result >>
    /\ UNCHANGED << chainVars, gasParams, nonce, ethAmount, slippage, minAmounts,
                    expectedTokenAmount, signedTxs,
                    transactions, gasAttempt, gasCalls, gasSleeps, relayVars >>

----------------------------------------------------------------------------
(* The transactions *)

\* Every transaction given the base nonce
TxNonceBase(base, k) == base

\* nonce, nonce+1, nonce+2 for the 1st, 2nd and 3rd transaction
TxNonce(base, k) == base + (k - 1)

\* Value of the transaction: 0 for approve, ethForSwap for swap, ethForLP for addLiquidity
TxValue(op, total) ==
    CASE op = "approve" -> 0
      [] op = "swap" -> EthForSwap(total)
      [] op = "addLiquidity" -> EthForLP(total)

\* types.NewTransaction(...) if gasParams.IsLegacy, else types.DynamicFeeTx{...}; the
\* fields of the other type are absent
\* Every transaction after the first built as a fee-market transaction
NewTxLegacyOnlyFirst(op, n, value, gas, gp) ==
    LET legacy == gp.IsLegacy /\ op = Ops[1]
    IN  [op |-> op, nonce |-> n, value |-> value, gas |-> gas,
         type |-> IF legacy THEN "legacy" ELSE "dynamicFee",
         gasPrice |-> IF legacy THEN gp.LegacyGasPrice ELSE None,
         gasFeeCap |-> IF legacy THEN None ELSE gp.MaxFeePerGas,
         gasTipCap |-> IF legacy THEN None ELSE gp.MaxPriorityFee]

NewTx(op, n, value, gas, gp) ==
    [op |-> op, nonce |-> n, value |-> value, gas |-> gas,
     type |-> IF gp.IsLegacy THEN "legacy" ELSE "dynamicFee",
     gasPrice |-> IF gp.IsLegacy THEN gp.LegacyGasPrice ELSE None,
     gasFeeCap |-> IF gp.IsLegacy THEN None ELSE gp.MaxFeePerGas,
     gasTipCap |-> IF gp.IsLegacy THEN None ELSE gp.MaxPriorityFee]

\* transactions := []*types.Transaction{approveTx, swapTx, addLiquidityTx}
Transactions(signed) == << signed[1], signed[2], signed[3] >>

\* The transaction is built and types.SignTx signs it; the function returns and its
\* gas estimation is over.  After the third one the list of the bundle is made.
SignTx ==
    /\ pc = "sign"
    /\ \E ok \in BOOLEAN :
         IF ok
         THEN LET k == Len(signedTxs) + 1
                  tx == NewTx(Ops[k], TxNonce(nonce, k), TxValue(Ops[k], ethAmount),
                              gasLimit, gasParams)
                  signed == Append(signedTxs, tx)
              IN  /\ signedTxs' = signed
                  /\ IF k = NumTxs
                     THEN transactions' = Transactions(signed) /\ pc' = "simulate"
                     ELSE UNCHANGED transactions /\ pc' = "pack"
                  /\ UNCHANGED result
         ELSE /\ result' = ErrCreate(CurrentOp)
              /\ pc' = "done"
              /\ UNCHANGED << signedTxs, transactions >>
    /\ gasAttempt' = 0 /\ gasLimit' = 0 /\ gasCalls' = 0 /\ gasSleeps' = << >>
    /\ UNCHANGED << cancelled, simResult, maxRetries, attempt, lastErr, sendCalls, sendLog,
                    sleeps, sendResult, timeout, elapsed, sinceSelect, tickReady,
                    includedCount, included, receipts, polls >>
    /\ UNCHANGED << chainVars, gasParams, nonce, ethAmount, slippage, minAmounts,
                    expectedTokenAmount, relayVars >>

----------------------------------------------------------------------------
(* SimulateBundle and the handling of its answer *)

\* err of SimulateBundle: the head query, the HTTP exchange or the parsing failed
SimulateErrors == { "failed to get latest block", "failed to send request" }

\* Error.Message of a relay response carrying a top-level error
RelayMessages == { "rate limited", "bundle rejected" }

\* One entry of SimulationResponse.Result.Results (the fields the pipeline reads)
TxResults ==
    { [Error |-> "", Revert |-> ""],
      [Error |-> "execution reverted", Revert |-> "INSUFFICIENT_OUTPUT_AMOUNT"],
      [Error |-> "out of gas", Revert |-> ""] }

ResultLists == UNION { [1 .. n -> TxResults] : n \in 0 .. NumTxs }

\* (simResult, err) as SimulateBundle returns them; err = Nil means a parsed response
SimulationAnswers ==
    [err : SimulateErrors, Error : {Nil}, Results : { << >> }]
      \cup [err : {Nil}, Error : {Nil} \cup RelayMessages, Results : ResultLists]

NotSimulated == [err |-> "not called", Error |-> Nil, Results |-> << >>]

\* Positions of the per-transaction results that carry an error
ErrorPositions(results) == { i \in 1 .. Len(results) : results[i].Error # "" }

\* A loop that keeps the last result carrying an error instead of returning at the first
LastErrorPosition(results) ==
    CHOOSE i \in ErrorPositions(results) : \A j \in ErrorPositions(results) : i >= j

\* for i, result := range simResult.Result.Results { if result.Error != "" { return ... } }
FirstErrorPosition(results) ==
    CHOOSE i \in ErrorPositions(results) : \A j \in ErrorPositions(results) : i <= j

\* The handling with the per-transaction results examined before the top-level error
SimulationOutcomeResultsFirst(r) ==
    IF r.err # Nil THEN Running
    ELSE IF ErrorPositions(r.Results) # {}
         THEN LET i == FirstErrorPosition(r.Results)
              IN  ErrTransaction(i, r.Results[i].Error, r.Results[i].Revert)
         ELSE IF r.Error # Nil THEN ErrSimulation(r.Error)
         ELSE Running

\* What ExecuteAtomicOperations does with the answer: Running means it goes on to send
SimulationOutcome(r) ==
    IF r.err # Nil THEN Running
    ELSE IF r.Error # Nil THEN ErrSimulation(r.Error)
    ELSE IF ErrorPositions(r.Results) # {}
         THEN LET i == FirstErrorPosition(r.Results)
              IN  ErrTransaction(i, r.Results[i].Error, r.Results[i].Revert)
         ELSE Running

\* A call on a cancelled context fails before anything is posted (HTTP transport)
SimulateCanReturn(r) == cancelled => r.err = "failed to get latest block"

\* tx.MarshalBinary() and hexutil.Encode: a typed transaction is its type byte followed
\* by its payload, a legacy one is its RLP list
RawTx(tx) == [envelope |-> IF tx.type = "legacy" THEN "rlp" ELSE "0x02", payload |-> tx]

\* The transactions encoded last first
EncodeTxsReversed(txs) == [i \in 1 .. Len(txs) |-> RawTx(txs[Len(txs) + 1 - i])]

\* for i, tx := range txs { ...; txsHex[i] = hexutil.Encode(txBytes) }
EncodeTxs(txs) == [i \in 1 .. Len(txs) |-> RawTx(txs[i])]

\* header, err := client.HeaderByNumber(ctx, nil); targetBlock := header.Number.Uint64() + 1
TargetBlock(h) == h + 1

\* Request{Method: method, Params: [{txs: txsHex, blockNumber: "0x%x" of targetBlock}]}
RelayRequest(method, txs, h) ==
    [method |-> method, txs |-> EncodeTxs(txs), blockNumber |-> TargetBlock(h)]

NoRequest == [method |-> "none", txs |-> << >>, blockNumber |-> 0]

SignatureBytes == 65    \* crypto.Sign: R || S || V, V being 0 or 1
RecoveryOffset == 27    \* if sig[64] < 27 { sig[64] += 27 }

\* The recovery byte left as crypto.Sign returns it
RecoveryByteRaw(v) == v

\* if sig[64] < 27 { sig[64] += 27 }
RecoveryByte(v) == IF v < RecoveryOffset THEN v + RecoveryOffset ELSE v

\* SignFlashbotsPayload(body, key), v being the recovery id of the signature:
\* fmt.Sprintf("%s:%s", addr.Hex(), hexutil.Encode(sig)), the signature taken over
\* the text hash of the hexadecimal Keccak-256 hash of the body; hexutil.Encode
\* writes two characters for each byte after "0x"
SignFlashbotsPayload(body, v) ==
    [address |-> "authKey", prefix |-> "0x", hexChars |-> 2 * SignatureBytes,
     recovery |-> RecoveryByte(v), body |-> body]

NoSignature == [address |-> "", prefix |-> "", hexChars |-> 0, recovery |-> 0, body |-> NoRequest]

\* The request posted whatever the head query returned
PostedAlways(err) == TRUE

\* Nothing is posted when the head query fails
Posted(err) == err # "failed to get latest block"

Simulate ==
    /\ pc = "simulate"
    /\ \E r \in SimulationAnswers :
         /\ SimulateCanReturn(r)
         /\ simResult' = r
         /\ simRequest' = IF Posted(r.err)
                          THEN RelayRequest("eth_callBundle", transactions, head)
                          ELSE simRequest
         /\ \E v \in recoveryIds :
              simSignature' = IF Posted(r.err)
                              THEN SignFlashbotsPayload(simRequest', v)
                              ELSE simSignature
         /\ result' = SimulationOutcome(r)
         /\ pc' = IF SimulationOutcome(r) = Running THEN "send" ELSE "done"
    /\ UNCHANGED << cancelled, maxRetries, attempt, lastErr, sendCalls, sendLog, sleeps,
                    sendResult, timeout, elapsed, sinceSelect, tickReady,
                    includedCount, included, receipts, polls >>
    /\ UNCHANGED << chainVars, seqVars, sendRequests, sendSignatures >>

----------------------------------------------------------------------------
(* SendBundle and SendBundleWithRetries *)

\* err of SendBundle: the head query failed (nothing is posted), or the HTTP
\* exchange or the parsing of the response failed
SendErrors == { "failed to get latest block", "failed to send request" }

\* (result, err) as SendBundle returns them: result is nil exactly when err is not,
\* and Error is result.Error (Nil when the response carries no relay error)
SendAnswers ==
    [err : SendErrors, Error : {Nil}] \cup [err : {Nil}, Error : {Nil} \cup RelayMessages]

\* The test without its second half: a relay error passes for a success
AttemptSucceededIgnoringRelayError(a) == a.err = Nil

\* The test with "or" for "and": one of the two errors absent is enough
AttemptSucceededOnEitherTest(a) == a.err = Nil \/ a.Error = Nil

\* if err == nil && result.Error == nil
AttemptSucceeded(a) == a.err = Nil /\ a.Error = Nil

\* if result != nil && result.Error != nil { lastErr = "flashbots error: ..." } else { lastErr = err }
AttemptError(a) ==
    IF a.err = Nil /\ a.Error # Nil THEN "flashbots error: " \o a.Error ELSE a.err

\* The loop condition off by one: attempt < maxRetries
LoopStopsEarly(n, max) == n < max

\* attempt <= maxRetries, the condition of the retry loop
LoopContinues(n, max) == n <= max

\* The sleep made after the last attempt as well
SleepsAfterEveryFailure(n, max) == n <= max

\* if attempt < maxRetries { time.Sleep(time.Duration(attempt) * time.Second) }
SleepsAfter(n, max) == n < max

\* A call on a cancelled context fails at the head query (HTTP transport)
SendCanReturn(a) == cancelled => a.err = "failed to get latest block"

\* The error of SendBundleWithRetries dropped: the run goes on to the monitor
AfterSendIgnoringError(ok) == "sent"

\* sendResult, err := flashbot.SendBundleWithRetries(...)
\* if err != nil { return fmt.Errorf("failed to send bundle: %v", err) }
AfterSend(ok) == IF ok THEN "sent" ELSE "done"

\* One iteration of the retry loop: one SendBundle call, its evaluation, the sleep
SendAttempt ==
    /\ pc = "send"
    /\ LoopContinues(attempt, maxRetries)
    /\ \E a \in SendAnswers :
         /\ SendCanReturn(a)
         /\ sendCalls' = sendCalls + 1
         /\ sendLog' = Append(sendLog, a)
         /\ sendRequests' = IF Posted(a.err)
                            THEN Append(sendRequests,
                                        RelayRequest("eth_sendBundle", transactions, head))
                            ELSE sendRequests
         /\ \E v \in recoveryIds :
              sendSignatures' =
                  IF Posted(a.err)
                  THEN Append(sendSignatures,
                              SignFlashbotsPayload(sendRequests'[Len(sendRequests')], v))
                  ELSE sendSignatures
         /\ IF AttemptSucceeded(a)
            THEN /\ sendResult' = "bundle"
                 /\ pc' = AfterSend(TRUE)
                 /\ UNCHANGED << attempt, lastErr, sleeps >>
            ELSE /\ lastErr' = AttemptError(a)
                 /\ sleeps' = IF SleepsAfter(attempt, maxRetries)
                              THEN Append(sleeps, attempt) ELSE sleeps
                 /\ attempt' = attempt + 1
                 /\ UNCHANGED << sendResult, pc >>
    /\ UNCHANGED << cancelled, simResult, maxRetries, timeout, elapsed, sinceSelect,
                    tickReady, includedCount, included, receipts, polls, result >>
    /\ UNCHANGED << chainVars, seqVars, simRequest, simSignature >>

\* The loop has ended without a success:
\* return nil, fmt.Errorf("failed to send bundle after %d attempts: %v", maxRetries, lastErr)
SendGiveUp ==
    /\ pc = "send"
    /\ ~LoopContinues(attempt, maxRetries)
    /\ result' = ErrSend(maxRetries, lastErr)
    /\ pc' = AfterSend(FALSE)
    /\ UNCHANGED << cancelled, simResult, maxRetries, attempt, lastErr, sendCalls, sendLog, sleeps,
                    sendResult, timeout, elapsed, sinceSelect, tickReady,
                    includedCount, included, receipts, polls >>
    /\ UNCHANGED << chainVars, seqVars, relayVars >>

----------------------------------------------------------------------------
(* monitorBundleInclusion *)

ReceiptStatus == { "none", "success", "failed" }

\* log.Printf("Bundle submitted!"); return monitorBundleInclusion(ctx, client, transactions, 60s)
\* startTime := time.Now(); ticker := time.NewTicker(1s); includedCount := 0
\* SendBundleWithRetries has returned: its lastErr and the record of its calls go
StartMonitor ==
    /\ pc = "sent"
    /\ pc' = "monitor"
    /\ elapsed' = 0
    /\ sinceSelect' = 0
    /\ tickReady' = FALSE
    /\ includedCount' = 0
    /\ included' = {}
    /\ polls' = 0
    /\ lastErr' = Nil /\ sendLog' = << >> /\ sleeps' = << >> /\ sendRequests' = << >>
    /\ sendSignatures' = << >>
    /\ UNCHANGED << cancelled, simResult, maxRetries, attempt, sendCalls, sendResult,
                    timeout, receipts, result >>
    /\ UNCHANGED << chainVars, seqVars, simRequest, simSignature >>

\* The chain records the outcome of a bundle transaction
Mine ==
    /\ pc = "monitor"
    /\ \E i \in TxIndex, st \in { "success", "failed" } :
         /\ receipts[i] = "none"
         /\ receipts' = [receipts EXCEPT ![i] = st]
    /\ UNCHANGED << pc, cancelled, simResult, maxRetries, attempt, lastErr, sendCalls, sendLog,
                    sleeps, sendResult, timeout, elapsed, sinceSelect, tickReady,
                    includedCount, included, polls, result >>
    /\ UNCHANGED << chainVars, seqVars, relayVars >>

\* The cases of the select that can proceed
DoneReady == cancelled                      \* case <-ctx.Done()
TimerReady == sinceSelect >= timeout        \* case <-time.After(timeout)
TickerReady == tickReady                    \* case <-ticker.C

\* One second passes while the monitor is blocked in the select; the ticker ticks
Advance ==
    /\ pc = "monitor"
    /\ ~DoneReady /\ ~TimerReady /\ ~TickerReady
    /\ elapsed' = IF elapsed < MaxElapsed THEN elapsed + 1 ELSE elapsed
    /\ sinceSelect' = sinceSelect + 1
    /\ tickReady' = TRUE
    /\ UNCHANGED << pc, cancelled, simResult, maxRetries, attempt, lastErr, sendCalls, sendLog,
                    sleeps, sendResult, timeout, includedCount, included, receipts,
                    polls, result >>
    /\ UNCHANGED << chainVars, seqVars, relayVars >>

\* The success receipts of the chain taken whether or not the lookup returned an error
SuccessSeenDespiteErrors(failed) == { i \in TxIndex : receipts[i] = "success" }

\* Hashes whose lookup gives a success receipt, failed being the lookups that return
\* an error: err == nil && receipt != nil && receipt.Status == 1
SuccessSeen(failed) == { i \in TxIndex : i \notin failed /\ receipts[i] = "success" }

\* The count set to the position of every success receipt, lower or not
CountReceiptUnguarded(k, c, seen) == IF k \in seen THEN k ELSE c

\* The body of the loop over txHashes, for the 1-based position k:
\* if i+1 > includedCount { includedCount = i + 1 }
CountReceipt(k, c, seen) == IF k \in seen /\ k > c THEN k ELSE c

RECURSIVE ScanReceipts(_, _, _)
ScanReceipts(k, c, seen) ==
    IF k > NumTxs THEN c ELSE ScanReceipts(k + 1, CountReceipt(k, c, seen), seen)

\* if includedCount == len(txHashes) { return nil }
AllIncluded(c) == c = NumTxs

\* A lookup on a cancelled context returns an error (HTTP transport)
LookupsCanFail(failed) == cancelled => failed = TxIndex

\* case <-ticker.C: one round of receipt lookups, then the check for completion
Poll ==
    /\ pc = "monitor"
    /\ TickerReady
    /\ \E failed \in SUBSET TxIndex :
         /\ LookupsCanFail(failed)
         /\ includedCount' = ScanReceipts(1, includedCount, SuccessSeen(failed))
         /\ included' = included \cup SuccessSeen(failed)
    /\ tickReady' = FALSE
    /\ polls' = IF polls < MaxPolls THEN polls + 1 ELSE polls
    /\ sinceSelect' = 0
    /\ IF AllIncluded(includedCount')
       THEN result' = RetNil /\ pc' = "done"
       ELSE UNCHANGED << result, pc >>
    /\ UNCHANGED << cancelled, simResult, maxRetries, attempt, lastErr, sendCalls, sendLog, sleeps,
                    sendResult, timeout, elapsed, receipts >>
    /\ UNCHANGED << chainVars, seqVars, relayVars >>

\* case <-time.After(timeout): return the timeout error with includedCount
TimeoutFires ==
    /\ pc = "monitor"
    /\ TimerReady
    /\ result' = ErrTimeout(includedCount)
    /\ pc' = "done"
    /\ UNCHANGED << cancelled, simResult, maxRetries, attempt, lastErr, sendCalls, sendLog, sleeps,
                    sendResult, timeout, elapsed, sinceSelect, tickReady,
                    includedCount, included, receipts, polls >>
    /\ UNCHANGED << chainVars, seqVars, relayVars >>

\* case <-ctx.Done(): return ctx.Err()
CancelReturns ==
    /\ pc = "monitor"
    /\ DoneReady
    /\ result' = ErrCancelled
    /\ pc' = "done"
    /\ UNCHANGED << cancelled, simResult, maxRetries, attempt, lastErr, sendCalls, sendLog, sleeps,
                    sendResult, timeout, elapsed, sinceSelect, tickReady,
                    includedCount, included, receipts, polls >>
    /\ UNCHANGED << chainVars, seqVars, relayVars >>

----------------------------------------------------------------------------
(* The run's context *)

\* The caller cancels ctx
Cancel ==
    /\ pc # "done"
    /\ ~cancelled
    /\ cancelled' = TRUE
    /\ UNCHANGED << pc, simResult, maxRetries, attempt, lastErr, sendCalls, sendLog, sleeps,
                    sendResult, timeout, elapsed, sinceSelect, tickReady,
                    includedCount, included, receipts, polls, result >>
    /\ UNCHANGED << chainVars, seqVars, relayVars >>

\* The chain appends a block
NewBlock ==
    /\ head < MaxHead
    /\ head' = head + 1
    /\ UNCHANGED << pc, cancelled, simResult, maxRetries, attempt, lastErr, sendCalls, sendLog,
                    sleeps, sendResult, timeout, elapsed, sinceSelect, tickReady,
                    includedCount, included, receipts, polls, result >>
    /\ UNCHANGED << feeSnapshot, gasEstimate, poolQuote, recoveryIds, seqVars, relayVars >>

----------------------------------------------------------------------------
(* The specifications *)

RetryArgs == (0 .. MaxRetriesArg) \cup { SendRetries }
Timeouts == (1 .. MaxTimeout) \cup { MonitorTimeout }

OpSet == { Ops[k] : k \in 1 .. NumTxs }

\* The head carries the largest base fee of the model and the tip query fails
CalmSnapshot == [headErr |-> FALSE, baseFee |-> MaxBaseFee, tip |-> None, gasPrice |-> None]

\* The node estimates for each operation what the code takes by default
DefaultEstimates == [op \in OpSet |-> LimbsOfInt(DefaultGasLimit(op))]

\* The signed transactions when every step of the sequencing has succeeded
SequencedTx(k, base, total, gp, est) ==
    NewTx(Ops[k], TxNonce(base, k), TxValue(Ops[k], total),
          IntOfLimbs(BufferedGas64(est[Ops[k]])), gp)

SequencedTxs(base, total, gp, est) ==
    << SequencedTx(1, base, total, gp, est), SequencedTx(2, base, total, gp, est),
       SequencedTx(3, base, total, gp, est) >>

\* The three transactions are signed; ExecuteAtomicOperations is about to simulate
BundleBuilt ==
    /\ feeSnapshot = CalmSnapshot
    /\ gasEstimate = DefaultEstimates
    /\ poolQuote = MaxQuote
    /\ head = 0
    /\ gasParams = CalculateDynamicGasParams(CalmSnapshot).params
    /\ nonce = 0
    /\ ethAmount = MaxEthAmount
    /\ slippage = DEFAULT_SLIPPAGE
    /\ expectedTokenAmount = MaxQuote
    /\ minAmounts = MinimumsFor("addLiquidity",
                                MinimumsFor("swap", NoMinimums, MaxQuote, MaxEthAmount, slippage),
                                MaxQuote, MaxEthAmount, slippage)
    /\ signedTxs = SequencedTxs(0, MaxEthAmount, gasParams, DefaultEstimates)
    /\ transactions = Transactions(signedTxs)
    /\ gasAttempt = 0 /\ gasLimit = 0 /\ gasCalls = 0 /\ gasSleeps = << >>
    /\ simRequest = NoRequest
    /\ sendRequests = << >>
    /\ simSignature = NoSignature
    /\ sendSignatures = << >>
    /\ pc = "simulate"
    /\ cancelled = FALSE
    /\ simResult = NotSimulated
    /\ attempt = 1
    /\ lastErr = Nil
    /\ sendCalls = 0
    /\ sendLog = << >>
    /\ sleeps = << >>
    /\ sendResult = "nil"
    /\ elapsed = 0
    /\ sinceSelect = 0
    /\ tickReady = FALSE
    /\ includedCount = 0
    /\ included = {}
    /\ receipts = [i \in TxIndex |-> "none"]
    /\ polls = 0
    /\ result = Running

Init ==
    /\ BundleBuilt
    /\ recoveryIds = { 0 }
    /\ maxRetries \in RetryArgs
    /\ timeout \in Timeouts


Next ==
    \/ Simulate
    \/ SendAttempt
    \/ SendGiveUp
    \/ StartMonitor
    \/ Mine
    \/ Advance
    \/ Poll
    \/ TimeoutFires
    \/ CancelReturns
    \/ Cancel

Spec == Init /\ [][Next]_vars

\* The relay calls of a run while the chain grows: simulate, then the send loop
RelayNext ==
    \/ Simulate
    \/ SendAttempt
    \/ SendGiveUp
    \/ NewBlock
    \/ Cancel

RelaySpec == Init /\ [][RelayNext]_vars

\* The simulation and the send of main's run, with an auth key whose signatures carry
\* either recovery id
SignedRelayInit ==
    /\ BundleBuilt
    /\ recoveryIds = { 0, 1 }
    /\ maxRetries = SendRetries
    /\ timeout = MonitorTimeout

SignedRelaySpec == SignedRelayInit /\ [][RelayNext]_vars

\* main has the client, the keys, the chain ID and the nonce, and nothing else yet
Started ==
    /\ pc = "fees"
    /\ cancelled = FALSE
    /\ head = 0
    /\ recoveryIds = { 0 }
    /\ gasParams = NoGasParams
    /\ expectedTokenAmount = None
    /\ minAmounts = NoMinimums
    /\ signedTxs = << >>
    /\ transactions = << >>
    /\ gasAttempt = 0 /\ gasLimit = 0 /\ gasCalls = 0 /\ gasSleeps = << >>
    /\ simResult = NotSimulated
    /\ simRequest = NoRequest
    /\ sendRequests = << >>
    /\ simSignature = NoSignature
    /\ sendSignatures = << >>
    /\ attempt = 1
    /\ lastErr = Nil
    /\ sendCalls = 0
    /\ sendLog = << >>
    /\ sleeps = << >>
    /\ sendResult = "nil"
    /\ elapsed = 0
    /\ sinceSelect = 0
    /\ tickReady = FALSE
    /\ includedCount = 0
    /\ included = {}
    /\ receipts = [i \in TxIndex |-> "none"]
    /\ polls = 0
    /\ result = Running

\* Fee derivation alone, over every answer of the node
FeeInit ==
    /\ Started
    /\ feeSnapshot \in FeeSnapshots
    /\ gasEstimate = DefaultEstimates
    /\ poolQuote = MaxQuote
    /\ nonce = 0
    /\ ethAmount = MaxEthAmount
    /\ slippage = DEFAULT_SLIPPAGE
    /\ maxRetries = SendRetries
    /\ timeout = MonitorTimeout

FeeNext ==
    \/ DeriveFees
    \/ Cancel

FeeSpec == FeeInit /\ [][FeeNext]_vars

\* The answers of the node that differ in kind: the head query fails, a head without
\* a base fee with the price query failing or not, a head with a base fee
RunSnapshots ==
    { s \in FeeSnapshots : /\ s.baseFee \in { None, MaxBaseFee }
                           /\ s.tip = None
                           /\ s.gasPrice \in { None, MaxGasPrice } }

\* Sequencing alone, from the fees main derived, over budgets, nonces, quotes and
\* gas estimates
SequencerInit ==
    /\ Started
    /\ feeSnapshot \in { s \in RunSnapshots : CalculateDynamicGasParams(s).err = Nil }
    /\ gasEstimate \in [OpSet -> { LimbsOfInt(1), LimbsOfInt(MaxGasEstimate) }]
    /\ poolQuote \in 0 .. MaxQuote
    /\ nonce \in 0 .. MaxNonce
    /\ ethAmount \in 0 .. MaxEthAmount
    /\ slippage = DEFAULT_SLIPPAGE
    /\ maxRetries = SendRetries
    /\ timeout = MonitorTimeout

SequencerNext ==
    \/ DeriveFees
    \/ Quote
    \/ PackData
    \/ EstimateGasAttempt
    \/ EstimateGasGiveUp
    \/ SignTx
    \/ Cancel

SequencerSpec == SequencerInit /\ [][SequencerNext]_vars

\* Amounts the pool may quote and budgets of the configuration, among them amounts
\* whose share after the tolerance is a whole number
SlippageAmounts == { 0, 1, 99, 100, 1000, 1000000 }
SlippageBudgets == { 0, 199, 200, 2000 }

\* Sequencing over quotes, budgets and slippage tolerances
SlippageInit ==
    /\ Started
    /\ feeSnapshot = CalmSnapshot
    /\ gasEstimate = DefaultEstimates
    /\ poolQuote \in SlippageAmounts
    /\ nonce = 0
    /\ ethAmount \in SlippageBudgets
    /\ slippage \in { f \in Slippages : IsFloat64(f) }
    /\ maxRetries = SendRetries
    /\ timeout = MonitorTimeout

SlippageSpec == SlippageInit /\ [][SequencerNext]_vars

\* Estimates of the node over the width of a uint64: 1, 10, the first estimate whose
\* product with 130 passes 2^64 (0x1f81f81f81f81f9), and 2^63
Uint64Estimates ==
    { LimbsOfInt(1), LimbsOfInt(MaxGasEstimate),
      LimbsOfHex(<< 1, 15, 8, 1, 15, 8, 1, 15, 8, 1, 15, 8, 1, 15, 9 >>),
      PowerOfTwo(Uint64Bits - 1) }

\* Sequencing over estimates of any width
GasBufferInit ==
    /\ Started
    /\ feeSnapshot = CalmSnapshot
    /\ gasEstimate \in [OpSet -> Uint64Estimates]
    /\ poolQuote = MaxQuote
    /\ nonce = 0
    /\ ethAmount = MaxEthAmount
    /\ slippage = DEFAULT_SLIPPAGE
    /\ maxRetries = SendRetries
    /\ timeout = MonitorTimeout

GasBufferSpec == GasBufferInit /\ [][SequencerNext]_vars

\* The whole run of main, with the arguments ExecuteAtomicOperations passes on and
\* the shortest timeout beside them
RunInit ==
    /\ Started
    /\ feeSnapshot \in RunSnapshots
    /\ gasEstimate = DefaultEstimates
    /\ poolQuote = MaxQuote
    /\ nonce \in 0 .. MaxNonce
    /\ ethAmount = MaxEthAmount
    /\ slippage = DEFAULT_SLIPPAGE
    /\ maxRetries = SendRetries
    /\ timeout \in { 1, MonitorTimeout }

RunNext ==
    \/ DeriveFees
    \/ Quote
    \/ PackData
    \/ EstimateGasAttempt
    \/ EstimateGasGiveUp
    \/ SignTx
    \/ Simulate
    \/ SendAttempt
    \/ SendGiveUp
    \/ StartMonitor
    \/ Mine
    \/ Advance
    \/ Poll
    \/ TimeoutFires
    \/ CancelReturns
    \/ Cancel

RunSpec == RunInit /\ [][RunNext]_vars

\* The pipeline keeps running, the clock keeps ticking and a ready select proceeds.
\* The select picks at random among the ready cases, so a case that is ready again
\* and again is taken in the end.  Nothing obliges the chain to mine a transaction
\* or the caller to cancel.
FairSpec ==
    /\ Spec
    /\ WF_vars(Simulate \/ SendAttempt \/ SendGiveUp \/ StartMonitor)
    /\ WF_vars(Advance)
    /\ WF_vars(Poll)
    /\ SF_vars(TimeoutFires)
    /\ SF_vars(CancelReturns)

----------------------------------------------------------------------------
(* Claims about the simulation step *)

Simulated == simResult # NotSimulated
SimulationParsed == Simulated /\ simResult.err = Nil

\* C1 as stated: whatever result of the simulation response carries an error, at
\* position i (counted from 1 here), the run has aborted with an error naming
\* transaction i with that result's error text and revert reason, and nothing was sent.
C1_AnyErrorIsNamed ==
    SimulationParsed =>
        \A i \in 1 .. Len(simResult.Results) :
            simResult.Results[i].Error # "" =>
                /\ result = ErrTransaction(i, simResult.Results[i].Error,
                                           simResult.Results[i].Revert)
                /\ sendCalls = 0

\* C1 amended: when a result of the simulation response carries an error, the run has
\* aborted and nothing was sent; when moreover the response has no top-level error,
\* the error names the first such result, with its error text and revert reason.
C1_FirstErrorIsNamed ==
    SimulationParsed =>
        \A i \in 1 .. Len(simResult.Results) :
            simResult.Results[i].Error # "" =>
                /\ pc = "done"
                /\ result.kind \in { "transactionError", "simulationError" }
                /\ sendCalls = 0 /\ sendResult = "nil"
                /\ ( /\ simResult.Error = Nil
                     /\ \A j \in 1 .. (i - 1) : simResult.Results[j].Error = "" )
                   => result = ErrTransaction(i, simResult.Results[i].Error,
                                              simResult.Results[i].Revert)

\* The second of three results reverted: the error names transaction 2
C1_Witness ==
    /\ simResult.err = Nil /\ simResult.Error = Nil
    /\ Len(simResult.Results) = 3
    /\ simResult.Results[1].Error = ""
    /\ simResult.Results[2].Error = "execution reverted"
    /\ simResult.Results[3].Error = "out of gas"
    /\ result = ErrTransaction(2, "execution reverted", "INSUFFICIENT_OUTPUT_AMOUNT")
    /\ pc = "done" /\ sendCalls = 0

SimulationFailed ==
    /\ Simulated
    /\ \/ simResult.err # Nil
       \/ simResult.Error # Nil
       \/ ErrorPositions(simResult.Results) # {}

\* C2: after a simulation that did not succeed (SimulateBundle returned an error, or
\* the response carries a top-level or a per-transaction error) SendBundle is never
\* called and the run does not return success.
C2_SimulationFailureIsTerminal ==
    SimulationFailed => sendCalls = 0 /\ sendResult = "nil" /\ result # RetNil

\* C3: a simulation response with a top-level relay error ends the run with an error
\* carrying the relay's message, whatever the per-transaction results are, and
\* SendBundle is never called.
C3_RelayErrorAborts ==
    (SimulationParsed /\ simResult.Error # Nil) =>
        /\ pc = "done"
        /\ result = ErrSimulation(simResult.Error)
        /\ sendCalls = 0 /\ sendResult = "nil"

\* A top-level error together with a reverted transaction in the results
C3_Witness ==
    /\ SimulationParsed
    /\ simResult.Error = "rate limited"
    /\ Len(simResult.Results) = 3
    /\ simResult.Results[2].Error = "execution reverted"
    /\ result = ErrSimulation("rate limited")
    /\ pc = "done"

----------------------------------------------------------------------------
(* Claims about SendBundleWithRetries *)

\* C9: when SendBundleWithRetries has returned success, SendBundle was called exactly
\* attempt <= maxRetries times, the last call succeeded (no transport error and no
\* relay error) and every earlier one failed; no call follows a successful one.
C9_SuccessAtFirstSuccessfulAttempt ==
    /\ sendResult = "bundle" =>
           /\ sendCalls = attempt /\ 1 <= attempt /\ attempt <= maxRetries
           /\ pc \in { "sent", "monitor", "done" }
           /\ result.kind # "sendError"
           /\ pc = "sent" => Len(sendLog) = attempt
    /\ \A j \in 1 .. Len(sendLog) :
           (sendLog[j].err = Nil /\ sendLog[j].Error = Nil)
               <=> (j = Len(sendLog) /\ sendResult = "bundle")

\* Two failed attempts, then success at the third of three
C9_Witness ==
    /\ pc = "sent" /\ sendResult = "bundle"
    /\ maxRetries = 3 /\ sendCalls = 3 /\ Len(sendLog) = 3
    /\ sendLog[1].err = "failed to send request"
    /\ sendLog[2].Error = "rate limited"
    /\ sendLog[3] = [err |-> Nil, Error |-> Nil]

\* C10: SendBundle is never called more than maxRetries times, and when
\* SendBundleWithRetries gives up it has called SendBundle exactly maxRetries times,
\* every call failed, and the error carries maxRetries and the failure of the last
\* call: the relay's message if that response carried one, else the transport error.
C10_ExhaustionReportsLastFailure ==
    /\ sendCalls <= maxRetries
    /\ result.kind = "sendError" =>
           /\ sendCalls = maxRetries /\ Len(sendLog) = maxRetries
           /\ result.attempts = maxRetries
           /\ \A j \in 1 .. Len(sendLog) : sendLog[j].err # Nil \/ sendLog[j].Error # Nil
           /\ maxRetries > 0 =>
                  LET last == sendLog[maxRetries]
                  IN  /\ last.Error # Nil => result.msg = "flashbots error: " \o last.Error
                      /\ last.err # Nil => result.msg = last.err

\* Three failed attempts of three, the last one a relay error, the first a transport error
C10_Witness ==
    /\ pc = "done" /\ result.kind = "sendError"
    /\ maxRetries = 3 /\ sendCalls = 3
    /\ sendLog[1].err = "failed to get latest block"
    /\ sendLog[3].Error = "bundle rejected"
    /\ result = ErrSend(3, "flashbots error: bundle rejected")

----------------------------------------------------------------------------
(* Claims about monitorBundleInclusion *)

\* C4: the monitor returns success only when every hash of the bundle is Included,
\* that is, some poll has seen a success receipt for it.
C4_SuccessOnlyWhenAllIncluded ==
    result = RetNil => included = TxIndex

\* C5: the timeout runs from the start of monitoring: once it has elapsed and the
\* monitor has not returned, the timeout case of its select can proceed.
C5_TimeoutRunsFromStart ==
    (pc = "monitor" /\ elapsed >= timeout) => TimerReady

\* C6: the monitor always returns in the end.
C6_MonitorReturns ==
    (pc = "monitor") ~> (pc = "done")

\* C7: the count carried by the timeout error is the number of hashes Included.
C7_TimeoutCountsIncluded ==
    result.kind = "timeoutError" => result.included = Cardinality(included)

\* C8: once ctx is cancelled the monitor makes no further poll, and when it returns
\* it returns the cancellation error.
C8_CancellationPreempts ==
    [][ (pc = "monitor" /\ cancelled) =>
            /\ polls' = polls
            /\ pc' = "done" => result' = ErrCancelled ]_vars

----------------------------------------------------------------------------
(* Claims about the sequencing *)

\* The transactions of a request are approve, swap, addLiquidity with nonces n, n+1, n+2
InBundleOrder(raw) ==
    /\ Len(raw) = NumTxs
    /\ \A i \in 1 .. NumTxs :
           raw[i].payload.op = Ops[i] /\ raw[i].payload.nonce = nonce + (i - 1)

\* C11: the transactions are signed in the order approve, swap, addLiquidity with
\* nonces n, n+1, n+2 for the base nonce n, and every request posted to the relay,
\* simulate or send, lists them in that order.
C11_BundleKeepsOrderAndNonces ==
    /\ \A k \in 1 .. Len(signedTxs) :
           signedTxs[k].op = Ops[k] /\ signedTxs[k].nonce = nonce + (k - 1)
    /\ Len(transactions) \in { 0, NumTxs }
    /\ simRequest # NoRequest => InBundleOrder(simRequest.txs)
    /\ \A j \in 1 .. Len(sendRequests) : InBundleOrder(sendRequests[j].txs)

\* Base nonce 1: the bundle was simulated and then sent twice, the third carries nonce 3
C11_Witness ==
    /\ nonce = 1
    /\ simRequest.method = "eth_callBundle"
    /\ Len(sendRequests) = 2
    /\ sendRequests[2].txs[1].payload.op = "approve"
    /\ sendRequests[2].txs[3].payload.op = "addLiquidity"
    /\ sendRequests[2].txs[3].payload.nonce = 3

\* C12: with s the floor of half the budget T (2s <= T < 2s + 2), the program's
\* ethForSwap is s, ethForSwap + ethForLP is T, the swap transaction carries the
\* value s and the addLiquidity transaction the value T - s.
C12_BudgetSplitIsExact ==
    LET half == CHOOSE x \in 0 .. ethAmount : 2 * x <= ethAmount /\ ethAmount < 2 * x + 2
    IN  /\ EthForSwap(ethAmount) = half
        /\ EthForSwap(ethAmount) + EthForLP(ethAmount) = ethAmount
        /\ \A k \in 1 .. Len(signedTxs) :
               /\ signedTxs[k].op = "approve" => signedTxs[k].value = 0
               /\ signedTxs[k].op = "swap" => signedTxs[k].value = half
               /\ signedTxs[k].op = "addLiquidity" => signedTxs[k].value = ethAmount - half

\* An odd budget of 3 wei: 1 wei goes to the swap and 2 wei to the liquidity
C12_Witness ==
    /\ ethAmount = 3
    /\ Len(signedTxs) = NumTxs
    /\ signedTxs[2].value = 1
    /\ signedTxs[3].value = 2
    /\ pc = "simulate"

----------------------------------------------------------------------------
(* Claims about the relay requests *)

\* C13: every send request of a run targets the block the run's simulate request
\* targeted (the first send request's block when no simulate request was posted),
\* however the chain head moves between the requests.
C13_OneTargetBlockPerRun ==
    \A j \in 1 .. Len(sendRequests) :
        sendRequests[j].blockNumber =
            IF simRequest = NoRequest THEN sendRequests[1].blockNumber
                                      ELSE simRequest.blockNumber

----------------------------------------------------------------------------
(* Claims about the fee derivation *)

\* Fee derivation has run on a live context and the head query succeeded
FeesDerivedFromHead == pc # "fees" /\ ~cancelled /\ ~feeSnapshot.headErr

\* x clamped to [lo, hi]
Clamped(x, lo, hi) == IF x < lo THEN lo ELSE IF x > hi THEN hi ELSE x

\* C14: when the head carries no base fee and the node suggests the price p, fee
\* derivation succeeds with the Legacy variant, its price is the floor of 1.5 p
\* (100 q <= 150 p < 100 q + 100) and no fee-market field is populated.
C14_LegacyPriceIsOneAndAHalf ==
    (FeesDerivedFromHead /\ feeSnapshot.baseFee = None /\ feeSnapshot.gasPrice # None) =>
        /\ pc = "quote"
        /\ gasParams.IsLegacy
        /\ 100 * gasParams.LegacyGasPrice <= 150 * feeSnapshot.gasPrice
        /\ 150 * feeSnapshot.gasPrice < 100 * gasParams.LegacyGasPrice + 100
        /\ gasParams.MaxFeePerGas = None
        /\ gasParams.MaxPriorityFee = None

\* A suggested price of 5 wei gives 7 wei, the floor of 7.5
C14_Witness ==
    /\ pc = "quote"
    /\ feeSnapshot.baseFee = None
    /\ feeSnapshot.gasPrice = 5
    /\ gasParams.IsLegacy
    /\ gasParams.LegacyGasPrice = 7

\* C15: when the head carries a base fee and the node suggests the tip t, the
\* priority fee is PRIORITY_FEE_MULTIPLIER * t clamped to the minimum and the maximum
\* priority fee, and so lies between them.
C15_PriorityFeeIsClamped ==
    (FeesDerivedFromHead /\ feeSnapshot.baseFee # None /\ feeSnapshot.tip # None) =>
        /\ pc = "quote"
        /\ ~gasParams.IsLegacy
        /\ gasParams.MaxPriorityFee =
               Clamped(PRIORITY_FEE_MULTIPLIER * feeSnapshot.tip,
                       MIN_PRIORITY_FEE_GWEI * WeiPerGwei, MAX_PRIORITY_FEE_GWEI * WeiPerGwei)
        /\ gasParams.MaxPriorityFee >= MIN_PRIORITY_FEE_GWEI * WeiPerGwei
        /\ gasParams.MaxPriorityFee <= MAX_PRIORITY_FEE_GWEI * WeiPerGwei

\* A tip whose multiple exceeds the maximum: the priority fee is the maximum
C15_Witness ==
    /\ pc = "quote"
    /\ feeSnapshot.tip # None
    /\ PRIORITY_FEE_MULTIPLIER * feeSnapshot.tip > MAX_PRIORITY_FEE_GWEI * WeiPerGwei
    /\ gasParams.MaxPriorityFee = MAX_PRIORITY_FEE_GWEI * WeiPerGwei

\* C16: when the head carries a base fee and the tip query fails, fee derivation
\* succeeds with the Dynamic variant, and its priority fee is what the minimum
\* priority fee gives as a suggestion: PRIORITY_FEE_MULTIPLIER times it, clamped.
C16_TipFailureFallsBackToMinimum ==
    (FeesDerivedFromHead /\ feeSnapshot.baseFee # None /\ feeSnapshot.tip = None) =>
        /\ pc = "quote"
        /\ result = Running
        /\ ~gasParams.IsLegacy
        /\ gasParams.LegacyGasPrice = None
        /\ gasParams.MaxPriorityFee =
               Clamped(PRIORITY_FEE_MULTIPLIER * (MIN_PRIORITY_FEE_GWEI * WeiPerGwei),
                       MIN_PRIORITY_FEE_GWEI * WeiPerGwei, MAX_PRIORITY_FEE_GWEI * WeiPerGwei)
        /\ gasParams.MaxFeePerGas >= gasParams.MaxPriorityFee

\* The tip query failed: the priority fee is three times the minimum
C16_Witness ==
    /\ pc = "quote"
    /\ feeSnapshot.baseFee = MaxBaseFee
    /\ feeSnapshot.tip = None
    /\ ~gasParams.IsLegacy
    /\ gasParams.MaxPriorityFee = 3 * MIN_PRIORITY_FEE_GWEI * WeiPerGwei

\* main has exited because the head query of the fee derivation failed
HeadQueryWasFatal == result = FatalFees("failed to get latest block header")

\* C17: when the head query of the fee derivation fails, main exits with that error
\* at once, and after that exit no transaction has been built or signed, no gas
\* estimate or quote was asked for, and neither simulate nor send was ever called.
C17_HeadFailureInFeesIsFatal ==
    /\ (pc # "fees" /\ feeSnapshot.headErr) => (pc = "done" /\ HeadQueryWasFatal)
    /\ HeadQueryWasFatal =>
           /\ pc = "done"
           /\ gasParams = NoGasParams
           /\ expectedTokenAmount = None
           /\ signedTxs = << >> /\ transactions = << >>
           /\ gasCalls = 0
           /\ ~Simulated /\ simRequest = NoRequest
           /\ sendCalls = 0 /\ sendRequests = << >> /\ sendResult = "nil"
           /\ polls = 0

\* The head query failed on a live context and main has exited
C17_Witness ==
    /\ feeSnapshot.headErr
    /\ ~cancelled
    /\ pc = "done"
    /\ HeadQueryWasFatal

----------------------------------------------------------------------------
(* Claims about the run as a whole *)

\* C18: when the run has ended with a sequencing error (the quote or the creation of
\* one of the three transactions failed), no transaction of the run has been signed.
C18_NoSigningBeforeSequencingErrors ==
    result.kind = "sequencingError" => signedTxs = << >>

\* C19: the stages run in the order sequencing, simulate, send, monitor.  The run is
\* about to simulate only with the three transactions signed and nothing simulated
\* or sent yet; once SimulateBundle has returned the run never simulates again;
\* SendBundle is called only after SimulateBundle has returned; receipts are looked
\* up only after SendBundleWithRetries has succeeded; and when it has given up no
\* receipt was ever looked up.
C19_StagesRunInOrder ==
    /\ pc = "simulate" =>
           /\ Len(signedTxs) = NumTxs /\ transactions = signedTxs
           /\ ~Simulated /\ sendCalls = 0 /\ polls = 0
    /\ Simulated =>
           /\ pc \in { "send", "sent", "monitor", "done" }
           /\ Len(signedTxs) = NumTxs
    /\ (sendCalls > 0 \/ pc \in { "send", "sent" }) => Simulated
    /\ (polls > 0 \/ pc = "monitor") => (sendResult = "bundle" /\ sendCalls > 0)
    /\ result.kind = "sendError" =>
           (pc = "done" /\ polls = 0 /\ included = {} /\ sendResult = "nil")

\* One run that was sent at the second attempt and polled, on a live context
C19_Witness ==
    /\ pc = "monitor"
    /\ ~cancelled
    /\ Simulated /\ sendCalls = 2 /\ sendResult = "bundle"
    /\ polls = 2

\* C20: once ctx is cancelled, no further SendBundle or EstimateGas call is made and
\* no further backoff sleep is begun.
C20_CancellationPreemptsRetries ==
    [][ cancelled =>
            /\ sendCalls' = sendCalls
            /\ Len(sleeps') <= Len(sleeps)
            /\ gasCalls' <= gasCalls
            /\ Len(gasSleeps') <= Len(gasSleeps) ]_vars

----------------------------------------------------------------------------
(* Claims about the attempts of SendBundleWithRetries *)

\* The answer of a SendBundle call carries a transport error or a relay error
AnswerFailed(a) == a.err # Nil \/ a.Error # Nil

\* The retry loop is running or has just returned: its record is still there
InSendLoop == pc \in { "send", "sent" } \/ result.kind = "sendError"

\* C21: an attempt succeeds exactly when its answer carries neither a transport error
\* nor a relay error.  While the loop goes on every answer so far failed, of either
\* kind, and each one advanced the loop by one attempt; the loop has returned success
\* exactly when its last answer carries no error of either kind.
C21_RelayErrorIsAFailedAttempt ==
    /\ pc = "send" =>
           /\ sendResult = "nil"
           /\ attempt = Len(sendLog) + 1
           /\ \A j \in 1 .. Len(sendLog) : AnswerFailed(sendLog[j])
    /\ pc = "sent" =>
           /\ sendResult = "bundle"
           /\ attempt = Len(sendLog)
           /\ ~AnswerFailed(sendLog[Len(sendLog)])
           /\ \A j \in 1 .. (Len(sendLog) - 1) : AnswerFailed(sendLog[j])

\* A response that parsed but carries a relay error: the loop is at its second attempt
C21_Witness ==
    /\ pc = "send"
    /\ maxRetries = 3
    /\ sendLog = << [err |-> Nil, Error |-> "rate limited"] >>
    /\ attempt = 2
    /\ lastErr = "flashbots error: rate limited"

\* 1 s, 2 s, ..., n s
LinearBackoff(n) == [k \in 1 .. n |-> k]

\* C22: the sleeps of the retry loop are 1 s, 2 s, ... in that order, one after each
\* failed attempt but the last one of maxRetries: after k failed attempts there were
\* k of them when k < maxRetries and maxRetries - 1 when the loop gave up, and none
\* follows a successful attempt.
C22_BackoffIsLinearAndStopsAtTheEnd ==
    InSendLoop =>
        LET failed == Cardinality({ j \in 1 .. Len(sendLog) : AnswerFailed(sendLog[j]) })
        IN  sleeps = LinearBackoff(IF failed < maxRetries THEN failed
                                   ELSE IF maxRetries > 0 THEN maxRetries - 1 ELSE 0)

\* Two failures, then a success at the third attempt of three: sleeps of 1 s and 2 s
C22_Witness ==
    /\ pc = "sent"
    /\ maxRetries = 3
    /\ Len(sendLog) = 3
    /\ sleeps = << 1, 2 >>

----------------------------------------------------------------------------
(* Claims about the polls of monitorBundleInclusion *)

\* The step is a poll: only the ticker case of the select takes the tick
PollStep == pc = "monitor" /\ tickReady /\ ~tickReady'

\* C23: the monitor returns success at the first poll at which every hash has a
\* success receipt: a poll returns success only when the chain holds a success
\* receipt for every hash (not earlier), and the poll that completes the success
\* receipts seen for every hash returns success (not later).
C23_SuccessAtTheFirstCompletePoll ==
    [][ PollStep =>
            /\ result' = RetNil => \A i \in TxIndex : receipts[i] = "success"
            /\ included' = TxIndex => (result' = RetNil /\ pc' = "done") ]_vars

C25_IncludedCountIsMonotone ==
    [][ /\ includedCount' >= includedCount
        /\ includedCount' <= NumTxs
        /\ included \subseteq included' ]_vars

\* Three polls have left the first two hashes Included and the count at 2
C25_Witness ==
    /\ pc = "monitor"
    /\ polls = 3
    /\ included = { 1, 2 }
    /\ includedCount = 2
    /\ receipts[3] = "none"

----------------------------------------------------------------------------
(* Claims about gas estimation *)

\* The waits after the first n failed estimation calls: 500ms, 1000ms, ...
EstimateBackoff(n) == [k \in 1 .. n |-> k * GasBackoffMillis]

\* The limit is the estimate with the buffer: floor(estimate * (100 + 30) / 100)
IsBuffered(limit, estimate) ==
    /\ 100 * limit <= estimate * (100 + GAS_LIMIT_BUFFER_PERCENT)
    /\ estimate * (100 + GAS_LIMIT_BUFFER_PERCENT) < 100 * limit + 100

\* C26: estimating the gas of a transaction makes at most 3 calls; it stops at the
\* first successful call and returns that estimate with the buffer applied; after
\* the failed call number a < 3 it has waited a * 500ms, and it does not wait after
\* the last call.
C26_EstimationRetriesAndBuffer ==
    /\ pc \in { "estimate", "sign" } =>
          /\ gasCalls <= GasRetries
          /\ gasSleeps = EstimateBackoff(IF gasAttempt < GasRetries THEN gasAttempt
                                         ELSE GasRetries - 1)
    /\ pc = "estimate" => gasCalls = gasAttempt
    /\ (pc = "sign" /\ gasAttempt < GasRetries) =>
          /\ gasCalls = gasAttempt + 1
          /\ IsBuffered(gasLimit, IntOfLimbs(gasEstimate[CurrentOp]))

\* The third call succeeded after waits of 500ms and 1000ms, and the buffer shows
C26_Witness ==
    /\ pc = "sign"
    /\ gasAttempt = 2
    /\ gasCalls = 3
    /\ gasSleeps = << 500, 1000 >>
    /\ gasEstimate[CurrentOp] = LimbsOfInt(MaxGasEstimate)
    /\ gasLimit > MaxGasEstimate

\* The default gas limits with the buffer applied: approve 60000, swap 300000,
\* add-liquidity 400000, each * 130 / 100
BufferedDefault(op) ==
    CASE op = "approve" -> 78000
      [] op = "swap" -> 390000
      [] op = "addLiquidity" -> 520000

\* C27: failing gas estimation is never fatal: the estimate stage is left only for
\* signing and without a result; after 3 failed calls the limit is the default of the
\* operation with the buffer applied, the transaction signed then carries it, and
\* the run goes on to the next transaction or to simulate.
C27_EstimationFailureFallsBackToDefault ==
    [][ /\ (pc = "estimate" /\ pc' # "estimate") => (pc' = "sign" /\ result' = Running)
        /\ (pc' = "sign" /\ gasAttempt' = GasRetries) =>
               gasLimit' = BufferedDefault(Ops[Len(signedTxs') + 1])
        /\ (pc = "sign" /\ gasAttempt = GasRetries /\ Len(signedTxs') > Len(signedTxs)) =>
               /\ signedTxs'[Len(signedTxs')].gas = BufferedDefault(Ops[Len(signedTxs')])
               /\ pc' = IF Len(signedTxs') = NumTxs THEN "simulate" ELSE "pack"
               /\ result' = Running ]_vars

\* Every estimation failed for the three transactions: the bundle handed to simulate
\* carries the three buffered defaults
C27_Witness ==
    /\ pc = "simulate"
    /\ result = Running
    /\ Len(signedTxs) = NumTxs
    /\ signedTxs[1].gas = 78000
    /\ signedTxs[2].gas = 390000
    /\ signedTxs[3].gas = 520000
    /\ gasEstimate = [op \in OpSet |-> LimbsOfInt(1)]

----------------------------------------------------------------------------
(* Claims about the quote *)

QuoteError == ErrSequencing("failed to get expected token amount")

\* C28: when the amounts-out quote fails or returns fewer than two amounts, the run
\* ends with the sequencing error of the quote before any transaction is built or
\* signed, and neither simulate nor send is invoked; the run goes past the quote
\* only with the second amount of a successful answer.
C28_QuoteFailureStopsBeforeBuilding ==
    /\ result = QuoteError =>
          /\ pc = "done"
          /\ expectedTokenAmount = None
          /\ signedTxs = << >> /\ transactions = << >>
          /\ gasCalls = 0
          /\ ~Simulated /\ simRequest = NoRequest
          /\ sendCalls = 0 /\ sendRequests = << >>
          /\ polls = 0
    /\ (pc \notin { "fees", "quote" } /\ result.kind # "fatal") =>
          \/ result = QuoteError
          \/ expectedTokenAmount = poolQuote

\* The quote failed on a live context after the fees were derived, and the run has ended
C28_Witness ==
    /\ result = QuoteError
    /\ pc = "done"
    /\ ~cancelled
    /\ gasParams # NoGasParams

----------------------------------------------------------------------------
(* Claims about the maximum fee *)

\* Fee derivation took the fee-market case
FeeMarketDerived == FeesDerivedFromHead /\ feeSnapshot.baseFee # None

----------------------------------------------------------------------------
(* Claims about the slippage minimums *)

\* floor(amount * (1 - s)) for the tolerance s = f.num / f.den
FloorOfShare(amount, f) == (amount * (f.den - f.num)) \div f.den

\* C30: every minimum-amount field (the swap minimum, the token minimum and the ETH
\* minimum) equals floor(amount * (1 - s)) for its amount and the slippage tolerance
\* s; in particular applySlippage(1000000, 0.01) = 990000.
C30_MinimumsAreFloors ==
    /\ minAmounts.amountOutMin # None =>
           minAmounts.amountOutMin = FloorOfShare(expectedTokenAmount, slippage)
    /\ minAmounts.amountTokenMin # None =>
           minAmounts.amountTokenMin = FloorOfShare(expectedTokenAmount, slippage)
    /\ minAmounts.amountETHMin # None =>
           minAmounts.amountETHMin = FloorOfShare(EthForLP(ethAmount), slippage)

\* The tolerance f is at most the tolerance g
LeqTolerance(f, g) == f.num * g.den <= g.num * f.den

\* min, the minimum computed for the amount with the tolerance of the run, is at
\* most the minimum of every smaller tolerance and at least that of every larger one
MonotoneAt(amount, min) ==
    \A f \in Slippages :
        /\ LeqTolerance(f, slippage) => applySlippage(amount, f) >= min
        /\ LeqTolerance(slippage, f) => applySlippage(amount, f) <= min

\* C31: applySlippage is non-increasing in the slippage for a fixed amount
\* (s1 <= s2 in [0, 1] implies applySlippage(x, s1) >= applySlippage(x, s2)), and
\* applySlippage(x, 0) = x: checked for the three minimums of a run against every
\* tolerance.
C31_SlippageIsMonotone ==
    /\ minAmounts.amountOutMin # None =>
           /\ MonotoneAt(expectedTokenAmount, minAmounts.amountOutMin)
           /\ slippage.num = 0 => minAmounts.amountOutMin = expectedTokenAmount
    /\ minAmounts.amountTokenMin # None =>
           /\ MonotoneAt(expectedTokenAmount, minAmounts.amountTokenMin)
           /\ slippage.num = 0 => minAmounts.amountTokenMin = expectedTokenAmount
    /\ minAmounts.amountETHMin # None =>
           /\ MonotoneAt(EthForLP(ethAmount), minAmounts.amountETHMin)
           /\ slippage.num = 0 => minAmounts.amountETHMin = EthForLP(ethAmount)

\* The minimums of 1000000 tokens at the default tolerance lie strictly between
\* those at 0.005 and at 0.05, and the amount itself is the minimum at 0
C31_Witness ==
    /\ pc = "simulate"
    /\ slippage = DEFAULT_SLIPPAGE
    /\ expectedTokenAmount = 1000000
    /\ minAmounts.amountTokenMin = 989999
    /\ \E f \in Slippages : f.num = 5 /\ f.den = 1000
                              /\ applySlippage(1000000, f) > minAmounts.amountTokenMin
    /\ \E f \in Slippages : f.num = 5 /\ f.den = 100
                              /\ applySlippage(1000000, f) < minAmounts.amountTokenMin
    /\ \E f \in Slippages : f.num = 0 /\ applySlippage(1000000, f) = 1000000

----------------------------------------------------------------------------
(* Claims about the requests posted to the relay *)

\* The header h is <signerAddress>:0x<130 hex chars>, signs the body and ends in a
\* recovery byte of 27 or 28
WellSigned(h, body) ==
    /\ h.address = "authKey"
    /\ h.prefix = "0x"
    /\ h.hexChars = 130
    /\ h.recovery \in { 27, 28 }
    /\ h.body = body

\* C32: every relay request, the simulate request and each send request, carries an
\* X-Flashbots-Signature header computed from that request's own body, of the form
\* <signerAddress>:0x<130 hex chars>, whose recovery byte is 27 or 28; and there is
\* no header without a request.
C32_EveryRequestIsSigned ==
    /\ simRequest = NoRequest => simSignature = NoSignature
    /\ simRequest # NoRequest => WellSigned(simSignature, simRequest)
    /\ Len(sendSignatures) = Len(sendRequests)
    /\ \A j \in 1 .. Len(sendRequests) : WellSigned(sendSignatures[j], sendRequests[j])

\* The simulate request and two send requests for different target blocks, each
\* with the header of its own body, both recovery bytes among them
C32_Witness ==
    /\ simRequest # NoRequest
    /\ Len(sendRequests) = 2
    /\ sendRequests[1].blockNumber # sendRequests[2].blockNumber
    /\ sendSignatures[1].body = sendRequests[1]
    /\ sendSignatures[2].body = sendRequests[2]
    /\ sendSignatures[1].recovery = 27
    /\ sendSignatures[2].recovery = 28
    /\ simSignature.body = simRequest

----------------------------------------------------------------------------
(* Claims about failing receipts *)

\* The hashes whose receipt on the chain has a failing status
FailedHashes == { i \in TxIndex : receipts[i] = "failed" }

\* C33: a transaction whose only receipt has a failing status is never counted as
\* included: the monitor does not return success while some hash has a failing
\* receipt, and the count reported on timeout leaves the hashes with a failing
\* receipt out, whatever the receipts of the other transactions are.
C33_FailedReceiptsAreNeverCounted ==
    /\ included \cap FailedHashes = {}
    /\ result = RetNil => FailedHashes = {}
    /\ result.kind = "timeoutError" =>
           result.included <= NumTxs - Cardinality(FailedHashes)

----------------------------------------------------------------------------
(* Claims about the transactions of the requests *)

\* raw is the encoding of the signed transactions of the run, one by one in order
IsTheSignedBundle(raw) ==
    /\ Len(raw) = Len(signedTxs)
    /\ \A i \in 1 .. Len(raw) : raw[i] = RawTx(signedTxs[i])

\* C34: the list of signed transactions every send attempt submits is, in content
\* and order, the list that was simulated, and both are the three transactions
\* signed by the sequencing: nothing is rebuilt, re-signed, reordered or dropped.
C34_SendSubmitsWhatWasSimulated ==
    /\ Simulated => (Len(signedTxs) = NumTxs /\ transactions = signedTxs)
    /\ simRequest # NoRequest => IsTheSignedBundle(simRequest.txs)
    /\ \A j \in 1 .. Len(sendRequests) :
          /\ IsTheSignedBundle(sendRequests[j].txs)
          /\ simRequest # NoRequest => sendRequests[j].txs = simRequest.txs

\* Three send attempts after a simulation, each with the three transactions simulated
C34_Witness ==
    /\ simRequest # NoRequest
    /\ Len(simRequest.txs) = NumTxs
    /\ Len(sendRequests) = 3
    /\ \A j \in 1 .. 3 : sendRequests[j].txs = simRequest.txs
    /\ simRequest.txs[1].payload.op = "approve"
    /\ simRequest.txs[3].payload.op = "addLiquidity"

----------------------------------------------------------------------------
(* Claims about the head query of the relay calls *)

HeadQueryFailed == "failed to get latest block"

\* C35: a SendBundle call whose head query fails posts no request, and the retry
\* loop counts it and goes on like after any failed attempt (lastErr set, attempt
\* advanced, the loop still running); a SimulateBundle call whose head query fails
\* posts no simulate request.
C35_HeadFailurePostsNothing ==
    /\ [](simResult.err = HeadQueryFailed =>
             (simRequest = NoRequest /\ simSignature = NoSignature))
    /\ [][ (Len(sendLog') = Len(sendLog) + 1 /\ sendLog'[Len(sendLog')].err = HeadQueryFailed) =>
               /\ sendRequests' = sendRequests
               /\ sendSignatures' = sendSignatures
               /\ sendCalls' = sendCalls + 1
               /\ attempt' = attempt + 1
               /\ lastErr' = HeadQueryFailed
               /\ sleeps' = IF attempt < maxRetries THEN Append(sleeps, attempt) ELSE sleeps
               /\ pc' = "send" /\ result' = Running ]_vars

\* The head query failed in SimulateBundle and in the first two SendBundle calls:
\* nothing was posted and the third attempt is due
C35_Witness ==
    /\ pc = "send"
    /\ simResult.err = HeadQueryFailed
    /\ simRequest = NoRequest
    /\ Len(sendLog) = 2
    /\ sendLog[1].err = HeadQueryFailed /\ sendLog[2].err = HeadQueryFailed
    /\ sendRequests = << >>
    /\ sendCalls = 2
    /\ attempt = 3
    /\ maxRetries = 3

----------------------------------------------------------------------------
(* Claims about the legacy price query *)

LegacyPriceWasFatal == result = FatalFees("failed to get legacy gas price")

\* C36: when the head carries no base fee and the legacy gas-price query fails, fee
\* derivation returns an error and no GasParams, and main exits; when the head
\* carries a base fee and the tip query fails, fee derivation succeeds all the same.
C36_LegacyPriceFailureIsFatal ==
    /\ (FeesDerivedFromHead /\ feeSnapshot.baseFee = None /\ feeSnapshot.gasPrice = None) =>
           /\ pc = "done"
           /\ LegacyPriceWasFatal
           /\ gasParams = NoGasParams
    /\ LegacyPriceWasFatal =>
           (feeSnapshot.baseFee = None /\ feeSnapshot.gasPrice = None /\ pc = "done")
    /\ (FeesDerivedFromHead /\ feeSnapshot.baseFee # None /\ feeSnapshot.tip = None) =>
           /\ pc = "quote"
           /\ result = Running
           /\ gasParams # NoGasParams
           /\ ~gasParams.IsLegacy

\* The head has no base fee, the price query failed and main has exited
C36_Witness ==
    /\ pc = "done"
    /\ ~cancelled
    /\ ~feeSnapshot.headErr
    /\ feeSnapshot.baseFee = None
    /\ feeSnapshot.gasPrice = None
    /\ LegacyPriceWasFatal
    /\ gasParams = NoGasParams

----------------------------------------------------------------------------
(* Claims about the width of the gas limit *)

\* C37: the buffered gas limit estimateGasWithRetry returns is never smaller than
\* the estimate of the node, for every uint64 estimate.
C37_BufferedGasIsAtLeastTheEstimate ==
    (pc = "sign" /\ gasAttempt < GasRetries) =>
        CmpLimbs(LimbsOfInt(gasLimit), gasEstimate[CurrentOp]) >= 0

----------------------------------------------------------------------------
(* Claims about the shape of the signed transactions *)

\* The transaction has the shape of the parameters: legacy with the legacy price,
\* or fee-market with the pair of the parameters
HasShapeOf(tx, gp) ==
    IF gp.IsLegacy
    THEN tx.type = "legacy" /\ tx.gasPrice = gp.LegacyGasPrice
    ELSE /\ tx.type = "dynamicFee"
         /\ tx.gasFeeCap = gp.MaxFeePerGas
         /\ tx.gasTipCap = gp.MaxPriorityFee

SameShape(a, b) ==
    /\ a.type = b.type
    /\ a.gasPrice = b.gasPrice
    /\ a.gasFeeCap = b.gasFeeCap
    /\ a.gasTipCap = b.gasTipCap

\* C38: the transactions of a bundle are all signed with the same GasParams
\* variant: all legacy with the legacy price, or all fee-market with the same
\* (maxFeePerGas, maxPriorityFee) pair; no bundle mixes the two shapes.
C38_OneShapePerBundle ==
    /\ \A i \in 1 .. Len(signedTxs) :
          /\ HasShapeOf(signedTxs[i], gasParams)
          /\ \A j \in 1 .. Len(signedTxs) : SameShape(signedTxs[i], signedTxs[j])
    /\ \A i \in 1 .. Len(transactions) :
          /\ HasShapeOf(transactions[i], gasParams)
          /\ \A j \in 1 .. Len(transactions) : SameShape(transactions[i], transactions[j])

\* A bundle of three legacy transactions has been signed
C38_Witness ==
    /\ gasParams.IsLegacy
    /\ Len(transactions) = NumTxs
    /\ \A i \in 1 .. NumTxs :
          transactions[i].type = "legacy" /\ transactions[i].gasPrice > 0

====
